---- MODULE Spec2Model ----
(***************************************************************************)
(* The /ai endpoint of prep/4_prep.py: an async generator, event_stream,   *)
(* that opens a streaming POST to the generation service, reframes each    *)
(* line of the newline-delimited JSON body as a server-sent event and      *)
(* yields the events to EventSourceResponse.                               *)
(*                                                                         *)
(* One relay session is one call of event_stream.  A session's position    *)
(* is pc[s], named after the source line the generator stands at.  The     *)
(* generator is suspended (and can therefore be cancelled by the consumer) *)
(* at its await and yield points only.                                     *)
(***************************************************************************)
EXTENDS Integers, Sequences, FiniteSets, TLC

\* ------------------------------------------------------------------ bounds
MaxLines == 3
NumSessions == 2

Sessions == 1..NumSessions

\* ------------------------------------------------------- upstream vocabulary
\* Lines the upstream body can hold (resp.aiter_lines() strips the newline).
LineEmpty == ""
LineSpaces == "  "
LineGarbage == "not-json"
LineArray == "[1]"
LineA == "{\"response\":\"A\",\"done\":false}"
LineB == "{\"response\":\"B\",\"done\":true}"
LineEmptyFrag == "{\"response\":\"\",\"done\":false}"
LineBare == "{}"

Lines ==
  {LineEmpty, LineSpaces, LineGarbage, LineArray, LineA, LineB, LineEmptyFrag, LineBare}

RECURSIVE SeqsUpTo(_, _)
SeqsUpTo(S, n) ==
  IF n = 0 THEN {<<>>}
  ELSE LET shorter == SeqsUpTo(S, n - 1)
       IN  shorter \cup {Append(q, x) : q \in {r \in shorter : Len(r) = n - 1}, x \in S}

Bodies == SeqsUpTo(Lines, MaxLines)

\* Status codes the upstream may answer with.
StatusCodes == {200, 500}

\* ------------------------------------------------------------ pure helpers
\* Variant of Strip: the line is tested without being stripped.
StripNone(l) == l

\* str.strip() on the lines above: only LineSpaces has surrounding whitespace.
Strip(l) == IF l = LineSpaces THEN "" ELSE l

\* json.loads: the decoded value, or the JSONDecodeError it raises.
\* (Empty and whitespace-only text is not JSON.)
NoData == [type |-> "none", has_response |-> FALSE, response |-> "", done |-> "absent"]
DecodeError == [NoData EXCEPT !.type = "JSONDecodeError"]
JsonLoads(l) ==
  CASE l = LineA -> [type |-> "object", has_response |-> TRUE, response |-> "A", done |-> "false"]
    [] l = LineB -> [type |-> "object", has_response |-> TRUE, response |-> "B", done |-> "true"]
    [] l = LineEmptyFrag ->
         [type |-> "object", has_response |-> TRUE, response |-> "", done |-> "false"]
    [] l = LineBare -> [NoData EXCEPT !.type = "object"]
    [] l = LineArray -> [NoData EXCEPT !.type = "array"]
    [] OTHER -> DecodeError

\* data.get("response", "")
GetResponse(d) == IF d.has_response THEN d.response ELSE ""

\* truth value of data.get("done"): a missing key gives None, which is falsy.
GetDone(d) == d.done = "true"

\* ------------------------------------------------------------ event literals
StartEvent == [event |-> "message", data |-> "Starting event stream<br>"]
StatusText(code) ==
  CASE code = 200 -> "HTTP Status Code: 200<br>"
    [] code = 500 -> "HTTP Status Code: 500<br>"
    [] OTHER -> "HTTP Status Code: ?<br>"
StatusEvent(code) == [event |-> "status", data |-> StatusText(code)]
ChunkEvent(c) == [event |-> "message", data |-> c]
ClosingEvent == [event |-> "message", data |-> "<br> closing stream <br>"]
\* Variant of CloseEvent: the close event carries a text.
CloseEventWithText == [event |-> "close", data |-> "closed"]
CloseEvent == [event |-> "close", data |-> ""]

\* ---------------------------------------------------------------- state
VARIABLES
  pc,          \* position of each session's generator
  connected,   \* the client (outbound consumer) is still there
  client,      \* httpx.AsyncClient handle: "none", "open", "closed"
  conn,        \* upstream connection/response: "none", "open", "closed"
  requests,    \* upstream requests sent so far
  status_code, \* resp.status_code (0 before a response exists)
  upstream,    \* the lines the upstream body will deliver
  cursor,      \* lines taken from resp.aiter_lines() so far
  line,        \* loop variable line
  data,        \* local data
  chunk,       \* local chunk
  events,      \* events yielded to EventSourceResponse, in order
  log,         \* lines printed as "Could not decode line"
  error,       \* exception that left the generator, "" if none
  delivered    \* events the consumer has taken and sent on to the client

vars ==
  <<pc, connected, client, conn, requests, status_code, upstream, cursor, line, data,
    chunk, events, log, error, delivered>>

\* Positions at which the generator is suspended in an await or a yield.
Suspended == {"start", "L23", "L33", "L36", "L38", "L46", "L49", "L54", "L56"}
Terminal == {"done", "raised", "cancelled"}

InitSession ==
  /\ pc = [s \in Sessions |-> "start"]
  /\ connected = [s \in Sessions |-> TRUE]
  /\ client = [s \in Sessions |-> "none"]
  /\ conn = [s \in Sessions |-> "none"]
  /\ requests = [s \in Sessions |-> 0]
  /\ status_code = [s \in Sessions |-> 0]
  /\ cursor = [s \in Sessions |-> 0]
  /\ line = [s \in Sessions |-> ""]
  /\ data = [s \in Sessions |-> NoData]
  /\ chunk = [s \in Sessions |-> ""]
  /\ events = [s \in Sessions |-> <<>>]
  /\ log = [s \in Sessions |-> <<>>]
  /\ error = [s \in Sessions |-> ""]
  /\ delivered = [s \in Sessions |-> 0]

\* One request to /ai (session 1); any upstream body.
Init ==
  /\ InitSession
  /\ \E b \in Bodies : upstream = [s \in Sessions |-> IF s = 1 THEN b ELSE <<>>]

\* ------------------------------------------------------------ scope exits
\* __aexit__ of the two async with blocks: what is open gets closed.
Closed(h) == IF h = "open" THEN "closed" ELSE h

\* Variant of Raise: one client and connection pool shared by all sessions
\* (a module-level AsyncClient), closed when any session fails.
RaiseShared(s, e) ==
  /\ pc' = [pc EXCEPT ![s] = "raised"]
  /\ error' = [error EXCEPT ![s] = e]
  /\ conn' = [t \in Sessions |-> Closed(conn[t])]
  /\ client' = [t \in Sessions |-> Closed(client[t])]

\* An exception e leaves the generator through both async with blocks.
Raise(s, e) ==
  /\ pc' = [pc EXCEPT ![s] = "raised"]
  /\ error' = [error EXCEPT ![s] = e]
  /\ conn' = [conn EXCEPT ![s] = Closed(conn[s])]
  /\ client' = [client EXCEPT ![s] = Closed(client[s])]

\* Variant of ExitWith: the loop is left with response and client still open
\* (client and stream entered without async with).
ExitWithLeak(s) ==
  /\ pc' = [pc EXCEPT ![s] = "L53"]
  /\ UNCHANGED <<client, conn>>

\* Leaving the async with blocks normally (loop exhausted or break).
ExitWith(s) ==
  /\ pc' = [pc EXCEPT ![s] = "L53"]
  /\ conn' = [conn EXCEPT ![s] = Closed(conn[s])]
  /\ client' = [client EXCEPT ![s] = Closed(client[s])]

\* ---------------------------------------------------------------- actions
\* line 22: async with httpx.AsyncClient() as client
EnterClient(s) ==
  /\ pc[s] = "start"
  /\ pc' = [pc EXCEPT ![s] = "L23"]
  /\ client' = [client EXCEPT ![s] = "open"]
  /\ UNCHANGED <<connected, conn, requests, status_code, upstream, cursor, line, data,
                 chunk, events, log, error, delivered>>

\* lines 23-31: client.stream("POST", ...) answers with a response
OpenStream(s) ==
  /\ pc[s] = "L23"
  /\ \E code \in StatusCodes : status_code' = [status_code EXCEPT ![s] = code]
  /\ requests' = [requests EXCEPT ![s] = @ + 1]
  /\ conn' = [conn EXCEPT ![s] = "open"]
  /\ pc' = [pc EXCEPT ![s] = "L32"]
  /\ UNCHANGED <<connected, client, upstream, cursor, line, data, chunk, events, log,
                 error, delivered>>

\* Variant of OpenStreamFail: a failed connection attempt is retried once.
OpenStreamFailRetry(s) ==
  /\ pc[s] = "L23"
  /\ requests' = [requests EXCEPT ![s] = @ + 1]
  /\ IF requests[s] = 0
       THEN UNCHANGED <<pc, error, conn, client>>
       ELSE Raise(s, "ConnectError")
  /\ UNCHANGED <<connected, status_code, upstream, cursor, line, data, chunk, events,
                 log, delivered>>

\* lines 23-31: client.stream fails to connect (httpx.ConnectError); nothing
\* in event_stream catches it.
OpenStreamFail(s) ==
  /\ pc[s] = "L23"
  /\ requests' = [requests EXCEPT ![s] = @ + 1]
  /\ Raise(s, "ConnectError")
  /\ UNCHANGED <<connected, status_code, upstream, cursor, line, data, chunk, events,
                 log, delivered>>

\* line 32: yield the start message
YieldStart(s) ==
  /\ pc[s] = "L32"
  /\ events' = [events EXCEPT ![s] = Append(@, StartEvent)]
  /\ pc' = [pc EXCEPT ![s] = "L33"]
  /\ UNCHANGED <<connected, client, conn, requests, status_code, upstream, cursor, line,
                 data, chunk, log, error, delivered>>

\* Variant of Sleep33: the status event of line 35 is left out.
Sleep33SkipStatus(s) ==
  /\ pc[s] = "L33"
  /\ pc' = [pc EXCEPT ![s] = "L36"]
  /\ delivered' = [delivered EXCEPT ![s] = Len(events[s])]
  /\ UNCHANGED <<connected, client, conn, requests, status_code, upstream, cursor, line,
                 data, chunk, events, log, error>>

\* lines 33-34: the consumer asks for the next event; sleep(1) elapses
Sleep33(s) ==
  /\ pc[s] = "L33"
  /\ pc' = [pc EXCEPT ![s] = "L35"]
  /\ delivered' = [delivered EXCEPT ![s] = Len(events[s])]
  /\ UNCHANGED <<connected, client, conn, requests, status_code, upstream, cursor, line,
                 data, chunk, events, log, error>>

\* line 35: yield the status event
YieldStatus(s) ==
  /\ pc[s] = "L35"
  /\ events' = [events EXCEPT ![s] = Append(@, StatusEvent(status_code[s]))]
  /\ pc' = [pc EXCEPT ![s] = "L36"]
  /\ UNCHANGED <<connected, client, conn, requests, status_code, upstream, cursor, line,
                 data, chunk, log, error, delivered>>

\* Variant of Sleep36: a status of 400 or more skips the read loop.
Sleep36StopOnError(s) ==
  /\ pc[s] = "L36"
  /\ IF status_code[s] >= 400
       THEN ExitWith(s)
       ELSE /\ pc' = [pc EXCEPT ![s] = "L38"]
            /\ UNCHANGED <<client, conn>>
  /\ delivered' = [delivered EXCEPT ![s] = Len(events[s])]
  /\ UNCHANGED <<connected, requests, status_code, upstream, cursor, line, data, chunk,
                 events, log, error>>

\* line 36: sleep(1) elapses, then the read loop is entered whatever the status
Sleep36(s) ==
  /\ pc[s] = "L36"
  /\ pc' = [pc EXCEPT ![s] = "L38"]
  /\ delivered' = [delivered EXCEPT ![s] = Len(events[s])]
  /\ UNCHANGED <<connected, client, conn, requests, status_code, upstream, cursor, line,
                 data, chunk, events, log, error>>

\* Variant of NextLine: the end of the body is not taken as the end of the
\* loop (lines pulled with anext in a while True: StopAsyncIteration escapes).
NextLineNoEnd(s) ==
  /\ pc[s] = "L38"
  /\ IF cursor[s] < Len(upstream[s])
       THEN /\ cursor' = [cursor EXCEPT ![s] = @ + 1]
            /\ line' = [line EXCEPT ![s] = upstream[s][cursor[s] + 1]]
            /\ pc' = [pc EXCEPT ![s] = "L39"]
            /\ UNCHANGED <<client, conn, error>>
       ELSE /\ Raise(s, "StopAsyncIteration")
            /\ UNCHANGED <<cursor, line>>
  /\ UNCHANGED <<connected, requests, status_code, upstream, data, chunk, events, log,
                 delivered>>

\* line 38: async for line in resp.aiter_lines() -- the next line arrives,
\* or the body is exhausted and both async with blocks are left
NextLine(s) ==
  /\ pc[s] = "L38"
  /\ IF cursor[s] < Len(upstream[s])
       THEN /\ cursor' = [cursor EXCEPT ![s] = @ + 1]
            /\ line' = [line EXCEPT ![s] = upstream[s][cursor[s] + 1]]
            /\ pc' = [pc EXCEPT ![s] = "L39"]
            /\ UNCHANGED <<client, conn>>
       ELSE /\ ExitWith(s)
            /\ UNCHANGED <<cursor, line>>
  /\ UNCHANGED <<connected, requests, status_code, upstream, data, chunk, events, log,
                 error, delivered>>

\* line 38: the transport fails while the body is read (httpx.ReadError);
\* nothing in event_stream catches it.
ReadFail(s) ==
  /\ pc[s] = "L38"
  /\ Raise(s, "ReadError")
  /\ UNCHANGED <<connected, requests, status_code, upstream, cursor, line, data, chunk,
                 events, log, delivered>>

\* Variant of ProcessLine: a line that fails to decode ends the read loop.
ProcessLineStopOnGarbage(s) ==
  /\ pc[s] = "L39"
  /\ IF Strip(line[s]) = ""
       THEN /\ pc' = [pc EXCEPT ![s] = "L38"]
            /\ UNCHANGED <<client, conn, data, chunk, log, error>>
       ELSE LET d == JsonLoads(line[s]) IN
            CASE d.type = "JSONDecodeError" ->
                   /\ log' = [log EXCEPT ![s] = Append(@, line[s])]
                   /\ ExitWith(s)
                   /\ UNCHANGED <<data, chunk, error>>
              [] d.type = "object" ->
                   /\ data' = [data EXCEPT ![s] = d]
                   /\ chunk' = [chunk EXCEPT ![s] = GetResponse(d)]
                   /\ pc' = [pc EXCEPT ![s] = "L46"]
                   /\ UNCHANGED <<client, conn, log, error>>
              [] OTHER ->
                   /\ data' = [data EXCEPT ![s] = d]
                   /\ Raise(s, "AttributeError")
                   /\ UNCHANGED <<chunk, log>>
  /\ UNCHANGED <<connected, requests, status_code, upstream, cursor, line, events,
                 delivered>>

\* lines 39-45 and 51-52: blank check, json.loads, data.get("response", "")
ProcessLine(s) ==
  /\ pc[s] = "L39"
  /\ IF Strip(line[s]) = ""
       THEN \* line 40: continue
            /\ pc' = [pc EXCEPT ![s] = "L38"]
            /\ UNCHANGED <<client, conn, data, chunk, log, error>>
       ELSE LET d == JsonLoads(line[s]) IN
            CASE d.type = "JSONDecodeError" ->
                   \* lines 51-52: print and go on with the next line
                   /\ log' = [log EXCEPT ![s] = Append(@, line[s])]
                   /\ pc' = [pc EXCEPT ![s] = "L38"]
                   /\ UNCHANGED <<client, conn, data, chunk, error>>
              [] d.type = "object" ->
                   /\ data' = [data EXCEPT ![s] = d]
                   /\ chunk' = [chunk EXCEPT ![s] = GetResponse(d)]
                   /\ pc' = [pc EXCEPT ![s] = "L46"]
                   /\ UNCHANGED <<client, conn, log, error>>
              [] OTHER ->
                   \* line 44: a list, number, string or None has no .get:
                   \* AttributeError, which except json.JSONDecodeError lets through
                   /\ data' = [data EXCEPT ![s] = d]
                   /\ Raise(s, "AttributeError")
                   /\ UNCHANGED <<chunk, log>>
  /\ UNCHANGED <<connected, requests, status_code, upstream, cursor, line, events,
                 delivered>>

\* line 46: sleep(0.3) elapses
Sleep46(s) ==
  /\ pc[s] = "L46"
  /\ pc' = [pc EXCEPT ![s] = "L47"]
  /\ UNCHANGED <<connected, client, conn, requests, status_code, upstream, cursor, line,
                 data, chunk, events, log, error, delivered>>

\* Variant of YieldChunk: an empty fragment is not yielded (if chunk: yield).
YieldChunkSkipEmpty(s) ==
  /\ pc[s] = "L47"
  /\ events' = [events EXCEPT ![s] = IF chunk[s] = "" THEN @ ELSE Append(@, ChunkEvent(chunk[s]))]
  /\ pc' = [pc EXCEPT ![s] = "L49"]
  /\ UNCHANGED <<connected, client, conn, requests, status_code, upstream, cursor, line,
                 data, chunk, log, error, delivered>>

\* line 47: yield the fragment
YieldChunk(s) ==
  /\ pc[s] = "L47"
  /\ events' = [events EXCEPT ![s] = Append(@, ChunkEvent(chunk[s]))]
  /\ pc' = [pc EXCEPT ![s] = "L49"]
  /\ UNCHANGED <<connected, client, conn, requests, status_code, upstream, cursor, line,
                 data, chunk, log, error, delivered>>

\* Variant of CheckDone: the done flag is not looked at.
CheckDoneNoBreak(s) ==
  /\ pc[s] = "L49"
  /\ pc' = [pc EXCEPT ![s] = "L38"]
  /\ delivered' = [delivered EXCEPT ![s] = Len(events[s])]
  /\ UNCHANGED <<connected, client, conn, requests, status_code, upstream, cursor, line,
                 data, chunk, events, log, error>>

\* Variant of CheckDone: the loop goes on without the consumer having taken
\* the fragment (events pushed to a buffer instead of yielded).
CheckDoneNoHandOff(s) ==
  /\ pc[s] = "L49"
  /\ IF GetDone(data[s])
       THEN ExitWith(s)
       ELSE /\ pc' = [pc EXCEPT ![s] = "L38"]
            /\ UNCHANGED <<client, conn>>
  /\ UNCHANGED <<connected, requests, status_code, upstream, cursor, line, data, chunk,
                 events, log, error, delivered>>

\* lines 49-50: if data.get("done"): break
CheckDone(s) ==
  /\ pc[s] = "L49"
  /\ IF GetDone(data[s])
       THEN ExitWith(s)
       ELSE /\ pc' = [pc EXCEPT ![s] = "L38"]
            /\ UNCHANGED <<client, conn>>
  /\ delivered' = [delivered EXCEPT ![s] = Len(events[s])]
  /\ UNCHANGED <<connected, requests, status_code, upstream, cursor, line, data, chunk,
                 events, log, error>>

\* line 53: yield the closing message
YieldClosing(s) ==
  /\ pc[s] = "L53"
  /\ events' = [events EXCEPT ![s] = Append(@, ClosingEvent)]
  /\ pc' = [pc EXCEPT ![s] = "L54"]
  /\ UNCHANGED <<connected, client, conn, requests, status_code, upstream, cursor, line,
                 data, chunk, log, error, delivered>>

\* line 54: sleep(1) elapses
Sleep54(s) ==
  /\ pc[s] = "L54"
  /\ pc' = [pc EXCEPT ![s] = "L55"]
  /\ delivered' = [delivered EXCEPT ![s] = Len(events[s])]
  /\ UNCHANGED <<connected, client, conn, requests, status_code, upstream, cursor, line,
                 data, chunk, events, log, error>>

\* line 55: yield the close event
YieldClose(s) ==
  /\ pc[s] = "L55"
  /\ events' = [events EXCEPT ![s] = Append(@, CloseEvent)]
  /\ pc' = [pc EXCEPT ![s] = "L56"]
  /\ UNCHANGED <<connected, client, conn, requests, status_code, upstream, cursor, line,
                 data, chunk, log, error, delivered>>

\* end of event_stream: the generator returns (StopAsyncIteration)
Finish(s) ==
  /\ pc[s] = "L56"
  /\ pc' = [pc EXCEPT ![s] = "done"]
  /\ delivered' = [delivered EXCEPT ![s] = Len(events[s])]
  /\ UNCHANGED <<connected, client, conn, requests, status_code, upstream, cursor, line,
                 data, chunk, events, log, error>>

\* Variant of Cancel: the unwinding leaves connection and client as they are.
CancelLeak(s) ==
  /\ pc[s] \in Suspended
  /\ connected' = [connected EXCEPT ![s] = FALSE]
  /\ pc' = [pc EXCEPT ![s] = "cancelled"]
  /\ UNCHANGED <<client, conn, requests, status_code, upstream, cursor, line, data, chunk,
                 events, log, error, delivered>>

\* The client goes away while the generator is suspended: the pending await
\* is cancelled (CancelledError), or the generator abandoned at a yield is
\* closed (GeneratorExit); either exception unwinds through the async with
\* blocks of lines 22-23, whose __aexit__ close response and client, and the
\* generator is not resumed again.
Cancel(s) ==
  /\ pc[s] \in Suspended
  /\ connected' = [connected EXCEPT ![s] = FALSE]
  /\ pc' = [pc EXCEPT ![s] = "cancelled"]
  /\ conn' = [conn EXCEPT ![s] = Closed(conn[s])]
  /\ client' = [client EXCEPT ![s] = Closed(client[s])]
  /\ UNCHANGED <<requests, status_code, upstream, cursor, line, data, chunk, events, log,
                 error, delivered>>

Step(s) ==
  \/ EnterClient(s)
  \/ OpenStream(s)
  \/ OpenStreamFail(s)
  \/ YieldStart(s)
  \/ Sleep33(s)
  \/ YieldStatus(s)
  \/ Sleep36(s)
  \/ NextLine(s)
  \/ ReadFail(s)
  \/ ProcessLine(s)
  \/ Sleep46(s)
  \/ YieldChunk(s)
  \/ CheckDone(s)
  \/ YieldClosing(s)
  \/ Sleep54(s)
  \/ YieldClose(s)
  \/ Finish(s)
  \/ Cancel(s)

Next == Step(1)

Spec == Init /\ [][Next]_vars

\* The event loop keeps running whatever is ready: a pause elapses, the
\* consumer asks for the next event, the upstream answers or fails.
LiveSpec == Spec /\ WF_vars(Next)

\* Several requests to /ai at once: every call of ai() makes its own
\* generator, and the event loop interleaves their steps in any order.
\* A session's upstream sends a body that makes it fail or one that it
\* relays to the end: either for session 1, the two in turn for the others.
FailingBody == <<LineGarbage, LineArray>>
CompleteBody == <<LineA, LineB>>
MultiBodies == {FailingBody, CompleteBody}
InitMulti ==
  /\ InitSession
  /\ \E b \in MultiBodies :
       upstream = [s \in Sessions |->
                     IF s = 1 THEN b ELSE IF s % 2 = 0 THEN CompleteBody ELSE FailingBody]
NextMulti == \E s \in Sessions : Step(s)
SpecMulti == InitMulti /\ [][NextMulti]_vars

\* ------------------------------------------------------ reference notions
\* What the claims speak of, stated on the upstream body itself.
BlankLines == {LineEmpty, LineSpaces}
ChunkLines == {LineA, LineB, LineEmptyFrag, LineBare}
DoneLines == {LineB}
FragmentOf(l) ==
  CASE l = LineA -> "A"
    [] l = LineB -> "B"
    [] OTHER -> ""

Range(q) == {q[i] : i \in 1..Len(q)}

\* Index of the first line carrying done=true, or the length if there is none.
StopIndex(body) ==
  IF \E i \in 1..Len(body) : body[i] \in DoneLines
    THEN CHOOSE i \in 1..Len(body) :
           /\ body[i] \in DoneLines
           /\ \A j \in 1..(i - 1) : body[j] \notin DoneLines
    ELSE Len(body)

\* Fragments of the chunk lines up to and including the first done line.
RECURSIVE FragmentsUpTo(_, _)
FragmentsUpTo(body, n) ==
  IF n = 0 THEN <<>>
  ELSE IF body[n] \in ChunkLines
         THEN Append(FragmentsUpTo(body, n - 1), FragmentOf(body[n]))
         ELSE FragmentsUpTo(body, n - 1)
ExpectedFragments(body) == FragmentsUpTo(body, StopIndex(body))

NonBlank(body) == SelectSeq(body, LAMBDA l : l \notin BlankLines)

\* The data of the message events that are not one of the two fixed banners.
Banners == {StartEvent.data, ClosingEvent.data}
IsFragmentEvent(e) == e.event = "message" /\ e.data \notin Banners
FragmentsOf(ev) ==
  LET sel == SelectSeq(ev, IsFragmentEvent)
  IN  [i \in 1..Len(sel) |-> sel[i].data]

CloseCount(ev) == Len(SelectSeq(ev, LAMBDA e : e.event = "close"))

\* The read loop was left normally (body exhausted or break).
AfterLoop == {"L53", "L54", "L55", "L56", "done"}
\* Lines whose event, if any, has been yielded.
Handled(s) == IF pc[s] \in {"L39", "L46", "L47"} THEN cursor[s] - 1 ELSE cursor[s]
TransportErrors == {"ConnectError", "ReadError"}

\* ------------------------------------------------------------------ claims
\* C1: on every exit path a session's event sequence holds exactly one close
\* event, and it is the last event.
C1_ExactlyOneClose ==
  \A s \in Sessions :
    pc[s] \in Terminal =>
      /\ CloseCount(events[s]) = 1
      /\ events[s][Len(events[s])] = CloseEvent

\* C2: when opening the upstream connection fails, the session still emits
\* close, emits no fragment message and holds no connection or client.
C2_ConnectFailureCloses ==
  \A s \in Sessions :
    error[s] = "ConnectError" =>
      /\ CloseEvent \in Range(events[s])
      /\ FragmentsOf(events[s]) = <<>>
      /\ conn[s] # "open"
      /\ client[s] # "open"

\* C3: a transport failure during the body read never leaves the generator
\* as an unhandled exception; the session ends with the closing message and
\* close.
C3_ReadFailureHandled ==
  \A s \in Sessions :
    /\ ~(pc[s] = "raised" /\ error[s] = "ReadError")
    /\ (error[s] = "ReadError" /\ pc[s] \in Terminal) =>
         (ClosingEvent \in Range(events[s]) /\ CloseEvent \in Range(events[s]))

\* C4: with non-JSON lines among chunk lines, the fragment messages number
\* exactly the chunk lines up to and including the first done line; a
\* non-JSON line adds no event and does not end the session.
OnlyChunksAndNoise(body) == \A i \in 1..Len(body) : body[i] # LineArray
C4_FragmentCount ==
  \A s \in Sessions :
    OnlyChunksAndNoise(upstream[s]) =>
      /\ pc[s] # "cancelled" =>
           Len(FragmentsOf(events[s])) =
             Cardinality({i \in 1..Handled(s) : upstream[s][i] \in ChunkLines})
      /\ pc[s] \in AfterLoop => cursor[s] = StopIndex(upstream[s])
      /\ pc[s] = "raised" => error[s] \in TransportErrors
C4_Witness ==
  \E s \in Sessions :
    /\ pc[s] = "done"
    /\ LineGarbage \in Range(SubSeq(upstream[s], 1, cursor[s]))
    /\ Len(FragmentsOf(events[s])) = 2

\* C5: after the first line with done=true has been emitted no further line
\* is taken from the upstream; the fragment messages are exactly the
\* fragments of the chunk lines up to and including that line, in order.
C5_StopAtDone ==
  \A s \in Sessions :
    (\E i \in 1..Len(upstream[s]) : upstream[s][i] \in DoneLines) =>
      /\ cursor[s] <= StopIndex(upstream[s])
      /\ pc[s] \in AfterLoop =>
           FragmentsOf(events[s]) = ExpectedFragments(upstream[s])
C5_Witness ==
  \E s \in Sessions :
    /\ pc[s] = "done"
    /\ upstream[s] = <<LineA, LineB, LineA>>
    /\ cursor[s] = 2
    /\ FragmentsOf(events[s]) = <<"A", "B">>

\* C6: once the client has cancelled, no further upstream line is read, no
\* further event is yielded, and connection and client are released.
C6_CancelStopsAndReleases ==
  [][\A s \in Sessions :
       ~connected'[s] =>
         /\ conn'[s] # "open"
         /\ client'[s] # "open"
         /\ ~connected[s] => (events'[s] = events[s] /\ cursor'[s] = cursor[s])]_vars
C6_Witness ==
  \E s \in Sessions :
    /\ ~connected[s]
    /\ conn[s] = "closed"
    /\ client[s] = "closed"
    /\ cursor[s] < Len(upstream[s])
    /\ Len(FragmentsOf(events[s])) >= 1

\* C7: the first event of every session is the start message, and it is
\* emitted before the upstream connection is opened.
C7_StartBeforeConnect ==
  \A s \in Sessions :
    /\ events[s] # <<>> => events[s][1] = StartEvent
    /\ (requests[s] > 0 \/ conn[s] # "none") =>
         (events[s] # <<>> /\ events[s][1] = StartEvent)

\* C8: empty and whitespace-only lines yield no event, are not logged as
\* decode failures, and leave the relayed fragments and the stopping point
\* as they are for the body without them.
C8_BlankLinesIgnored ==
  \A s \in Sessions :
    /\ \A i \in 1..Len(log[s]) : log[s][i] \notin BlankLines
    /\ Len(FragmentsOf(events[s])) <=
         Cardinality({i \in 1..Handled(s) : upstream[s][i] \notin BlankLines})
    /\ pc[s] \in AfterLoop =>
         /\ FragmentsOf(events[s]) = ExpectedFragments(NonBlank(upstream[s]))
         /\ Len(NonBlank(SubSeq(upstream[s], 1, cursor[s]))) =
              StopIndex(NonBlank(upstream[s]))
    /\ pc[s] = "raised" => (error[s] = "AttributeError" => line[s] \notin BlankLines)
C8_Witness ==
  \E s \in Sessions :
    /\ pc[s] = "done"
    /\ upstream[s] = <<LineSpaces, LineEmpty, LineB>>
    /\ FragmentsOf(events[s]) = <<"B">>
    /\ log[s] = <<>>

\* C9: a non-success status does not stop the session: the status event
\* reports the code and the body is relayed as for a success status, ending
\* with the closing message and close.
RECURSIVE ChunkEvents(_)
ChunkEvents(fs) ==
  IF fs = <<>> THEN <<>> ELSE <<ChunkEvent(Head(fs))>> \o ChunkEvents(Tail(fs))
C9_StatusNotAStop ==
  \A s \in Sessions :
    /\ pc[s] = "done" =>
         events[s] = <<StartEvent, StatusEvent(status_code[s])>>
                       \o ChunkEvents(ExpectedFragments(upstream[s]))
                       \o <<ClosingEvent, CloseEvent>>
    /\ (pc[s] = "L38" /\ cursor[s] = 0) => Len(events[s]) = 2
    /\ (pc[s] \in AfterLoop /\ status_code[s] # 200) => cursor[s] = StopIndex(upstream[s])
C9_Witness ==
  \E s \in Sessions :
    /\ pc[s] = "done"
    /\ status_code[s] = 500
    /\ FragmentsOf(events[s]) = <<"A", "", "B">>

\* C10: a line that is no chunk object (non-JSON, or JSON that is not an
\* object) is dropped without an event and the session goes on with the
\* next line; it never aborts the session.
C10_BadLineNeverAborts ==
  \A s \in Sessions :
    pc[s] = "raised" => error[s] \in TransportErrors

\* C11: every event's kind is message, status or close, and a close event
\* carries the empty payload.
EventKinds == {"message", "status", "close"}
C11_KindsAndEmptyClose ==
  \A s \in Sessions :
    \A i \in 1..Len(events[s]) :
      /\ events[s][i].event \in EventKinds
      /\ events[s][i].event = "close" => events[s][i].data = ""
C11_Witness ==
  \E s \in Sessions :
    /\ pc[s] = "done"
    /\ events[s][Len(events[s])].event = "close"
    /\ \E i \in 1..Len(events[s]) : events[s][i].event = "status"

\* C12: with the upstream connected the events come in the order start,
\* one status, the fragments in upstream order, closing, close; no fragment
\* comes before the status event or after the closing message.
IsPrefix(p, q) == Len(p) <= Len(q) /\ p = SubSeq(q, 1, Len(p))
FullOrder(s) ==
  <<StartEvent, StatusEvent(status_code[s])>>
    \o ChunkEvents(FragmentsUpTo(upstream[s], cursor[s]))
    \o <<ClosingEvent, CloseEvent>>
C12_EventOrder ==
  \A s \in Sessions :
    /\ IsPrefix(events[s], FullOrder(s))
    /\ conn[s] = "open" => ClosingEvent \notin Range(events[s])
    /\ pc[s] \in AfterLoop =>
         Len(events[s]) >= 2 + Len(FragmentsUpTo(upstream[s], cursor[s]))
    /\ pc[s] = "done" => events[s] = FullOrder(s)
C12_Witness ==
  \E s \in Sessions :
    /\ pc[s] = "done"
    /\ connected[s]
    /\ events[s] = <<StartEvent, StatusEvent(200), ChunkEvent("A"), ChunkEvent("B"),
                      ClosingEvent, CloseEvent>>

\* C13: the session takes the next upstream line, and yields the next
\* event, only when the consumer has taken every event yielded so far; at
\* most one event is ever outstanding and every line already read has had
\* its event yielded.
C13_LockStep ==
  [][\A s \in Sessions :
       /\ Len(events'[s]) <= delivered'[s] + 1
       /\ (events'[s] # events[s] \/ cursor'[s] # cursor[s]) =>
            delivered[s] = Len(events[s])
       /\ cursor'[s] # cursor[s] =>
            FragmentsOf(events[s]) = FragmentsUpTo(upstream[s], cursor[s])]_vars
C13_Witness ==
  \E s \in Sessions :
    /\ pc[s] = "L39"
    /\ cursor[s] = 2
    /\ upstream[s][1] \in ChunkLines
    /\ delivered[s] = 3
    /\ Len(events[s]) = 3

\* C14: every decoded chunk line yields exactly one message event carrying
\* exactly its response fragment, the empty string included (also when the
\* response field is absent).
C14_EveryChunkRelayed ==
  \A s \in Sessions :
    /\ pc[s] # "cancelled" =>
         FragmentsOf(events[s]) = FragmentsUpTo(upstream[s], Handled(s))
    /\ pc[s] = "cancelled" =>
         \E n \in {cursor[s] - 1, cursor[s]} :
           n >= 0 /\ FragmentsOf(events[s]) = FragmentsUpTo(upstream[s], n)
C14_Witness ==
  \E s \in Sessions :
    /\ pc[s] = "done"
    /\ upstream[s] = <<LineEmptyFrag, LineBare, LineB>>
    /\ FragmentsOf(events[s]) = <<"", "", "B">>

\* C15: when the body ends without a line carrying done=true, the read loop
\* ends and the session goes on to emit the closing message and then close,
\* unless the client goes away (or the transport fails) first.
NoDoneLine(body) == \A i \in 1..Len(body) : body[i] \notin DoneLines
BodyExhausted(s) ==
  /\ pc[s] = "L38"
  /\ cursor[s] = Len(upstream[s])
  /\ NoDoneLine(upstream[s])
EndsWithClose(s) ==
  /\ Len(events[s]) >= 2
  /\ SubSeq(events[s], Len(events[s]) - 1, Len(events[s])) = <<ClosingEvent, CloseEvent>>
C15_ExhaustedBodyCloses ==
  \A s \in Sessions :
    BodyExhausted(s) ~>
      \/ pc[s] = "done" /\ EndsWithClose(s)
      \/ ~connected[s]
      \/ error[s] = "ReadError"
C15_Witness ==
  \E s \in Sessions :
    /\ pc[s] = "done"
    /\ connected[s]
    /\ upstream[s] = <<LineA, LineGarbage, LineSpaces>>
    /\ cursor[s] = 3
    /\ EndsWithClose(s)

\* C16: the upstream connection is acquired once, is open only between the
\* opening of the request and the end of the read loop, is closed by the
\* time the closing message and close are emitted, and no session has ended
\* with it still open.
InStream == {"L32", "L33", "L35", "L36", "L38", "L39", "L46", "L47", "L49"}
C16_ConnectionLifetime ==
  \A s \in Sessions :
    /\ requests[s] <= 1
    /\ conn[s] = "open" => (pc[s] \in InStream /\ client[s] = "open")
    /\ pc[s] \in AfterLoop \cup Terminal => (conn[s] # "open" /\ client[s] # "open")
    /\ (ClosingEvent \in Range(events[s]) \/ CloseEvent \in Range(events[s])) =>
         (conn[s] = "closed" /\ client[s] = "closed")
C16_Witness ==
  \E s \in Sessions :
    /\ pc[s] = "L56"
    /\ cursor[s] >= 1
    /\ conn[s] = "closed"
    /\ client[s] = "closed"
    /\ EndsWithClose(s)

\* C17: a session sends at most one upstream request, also after a failed
\* attempt, and takes each line once: a line that fails to decode is logged
\* once and not read again.
GarbageLines(body) == SelectSeq(body, LAMBDA l : l = LineGarbage)
C17_NoRetry ==
  \A s \in Sessions :
    /\ requests[s] <= 1
    /\ error[s] = "ConnectError" => (requests[s] = 1 /\ pc[s] = "raised")
    /\ cursor[s] <= Len(upstream[s])
    /\ log[s] = GarbageLines(SubSeq(upstream[s], 1, Handled(s)))
C17_Witness ==
  \E s \in Sessions :
    /\ pc[s] = "raised"
    /\ error[s] = "ConnectError"
    /\ requests[s] = 1
    /\ conn[s] = "none"

\* C18: with several sessions interleaved, a step of one session (a failure,
\* an early stop and a cancellation included) leaves every other session's
\* state, events and connection as they are, and a session's events come
\* from its own upstream lines and status only.
SessionState(s) ==
  <<pc[s], connected[s], client[s], conn[s], requests[s], status_code[s], upstream[s],
    cursor[s], line[s], data[s], chunk[s], events[s], log[s], error[s], delivered[s]>>
C18_SessionsIndependent ==
  [][/\ \E s \in Sessions :
          \A t \in Sessions \ {s} : SessionState(t)' = SessionState(t)
     /\ \A s \in Sessions : IsPrefix(events'[s], FullOrder(s)')]_vars
C18_Witness ==
  /\ upstream[1] = FailingBody
  /\ upstream[2] = CompleteBody
  /\ pc[1] = "raised"
  /\ error[1] = "AttributeError"
  /\ pc[2] = "L49"
  /\ conn[2] = "open"
  /\ FragmentsOf(events[2]) = <<"A", "B">>

====
